---------------------------- MODULE Spec2Model ----------------------------
(***************************************************************************)
(* A model of audit_framework.py: the A/B-test simulator (simulate_data),  *)
(* the Nudge Autonomy Deficit scorer (calculate_autonomy_deficit), the     *)
(* trade-off reporter (generate_visualization) and the entry point that    *)
(* runs them in sequence.                                                  *)
(*                                                                         *)
(* Units.  User_Comprehension_Score is held in hundredths of a point       *)
(* (7.0 is 700), so that the rounding to one decimal is a real operation.  *)
(* OptOut_Difficulty_Score and Urgency_Messaging_Score are whole points.   *)
(* The weights 0.4 and 0.5 are held in tenths (4 and 5), hence NAD_Score   *)
(* is held in tenths of a point (2.3 is 23).  Quotients (means, the        *)
(* normalised score, the two deltas of the reporter) are exact fractions   *)
(* <<numerator, denominator>> in lowest terms with a positive denominator. *)
(* Arithmetic is exact; the binary rounding of IEEE doubles is not         *)
(* modelled.                                                               *)
(***************************************************************************)
EXTENDS Integers, Sequences, FiniteSets, TLC

VARIABLES
    pc,             \* position of the run: the statement about to execute
    df,             \* the table: [columns: set of names, rows: sequence of rows]
    out,            \* what has been printed / displayed so far, in order
    err,            \* the uncaught exception that ended the run, or "none"
    summary,        \* the NAD summary printed by the driver (line 131)
    nudge_effect,   \* local of generate_visualization (<<>> while unset)
    ethical_cost,   \* local of generate_visualization (<<>> while unset)
    tradeoff_data   \* local of generate_visualization (<<>> while unset)

vars == <<pc, df, out, err, summary, nudge_effect, ethical_cost, tradeoff_data>>

-----------------------------------------------------------------------------
(* Bounds of the model *)

\* Rows per simulated table.  The source fixes n_users = 1000 (line 19); the
\* model scales the count down so that every table can be enumerated.
n_users == 2

\* Longest table handed directly to the scorer.
MaxScorerRows == 2

\* Longest enumerated table handed directly to the reporter.
MaxReporterRows == 3

-----------------------------------------------------------------------------
(* Program constants *)

UserIDBase == 1000              \* range(1000, 1000 + n_users)
randint_low == 1                \* np.random.randint(1, 10): low, inclusive
randint_high == 10              \* np.random.randint(1, 10): high, exclusive
comprehension_bias == 100       \* -= 1.0 for group B, in hundredths
urgency_clip_low == 1           \* .clip(1, 8) of group B's urgency
urgency_clip_high == 8
urgency_bias == 2               \* + 2.0 of group B's urgency
score_low == 1                  \* .clip(1, 10) of both score columns
score_high == 10
W_OptOut == 4                   \* WEIGHTS['OptOut_Difficulty_Score'] = 0.4, in tenths
W_Urgency == 5                  \* WEIGHTS['Urgency_Messaging_Score'] = 0.5, in tenths
percent == 100                  \* (Goal_Rate[B] - Goal_Rate[A]) * 100

\* (10 * 0.4) + (10 * 0.5) = 9.0, in tenths
max_possible_score == (10 * W_OptOut) + (10 * W_Urgency)

Groups == {"A", "B"}

ObservationColumns ==
    {"UserID", "Test_Group", "Platform_Goal_Achieved", "User_Comprehension_Score",
     "OptOut_Difficulty_Score", "Urgency_Messaging_Score"}

\* np.random.randint(1, 10) read as if its upper end were inclusive.
RandintRange_Inclusive == randint_low .. randint_high

\* The values np.random.randint(1, 10) can return.
RandintRange == randint_low .. (randint_high - 1)

\* The values np.random.choice([0, 1], ...) can return.
GoalChoices == {0, 1}

\* A sample of what np.random.normal(7, 1.5) can return, in hundredths: far
\* below and far above the scale, values that fall off the scale only after
\* group B's bias, values that round onto the ends of the scale, two rounding
\* ties and the mean.
NormalDraws == {-250, 104, 150, 645, 655, 700, 998, 1050, 1250}

-----------------------------------------------------------------------------
(* Arithmetic helpers *)

Abs(x) == IF x < 0 THEN -x ELSE x

RECURSIVE GCD(_, _)
GCD(a, b) == IF b = 0 THEN a ELSE GCD(b, a % b)

\* The fraction n / d (d # 0) in lowest terms with a positive denominator.
Frac(n, d) ==
    LET g == GCD(Abs(n), Abs(d))
        s == IF d < 0 THEN -1 ELSE 1
    IN  <<(s * n) \div g, (s * d) \div g>>

FracSub(p, q) == Frac(p[1] * q[2] - q[1] * p[2], p[2] * q[2])
FracMul(p, k) == Frac(p[1] * k, p[2])

\* n / d (d > 0) rounded to the nearest integer, ties to the even one, as
\* numpy's and pandas' round do.
RoundHalfEven(n, d) ==
    LET q == n \div d
        r == n % d
    IN  IF 2 * r < d THEN q
        ELSE IF 2 * r > d THEN q + 1
        ELSE IF q % 2 = 0 THEN q ELSE q + 1

\* Series.clip(lo, hi) on one value.
Clip(x, lo, hi) == IF x < lo THEN lo ELSE IF x > hi THEN hi ELSE x

\* Series.round(1) on one value in hundredths: the nearest tenth.
Round1(x) == 10 * RoundHalfEven(x, 10)

-----------------------------------------------------------------------------
(* Table helpers *)

\* df[c] = ... on one row: the column is added, or overwritten if present.
SetCol(row, c, v) == [k \in (DOMAIN row) \cup {c} |-> IF k = c THEN v ELSE row[k]]

\* The numbers of the rows of d for which Test_Group == g.
GroupIdx(d, g) == {i \in DOMAIN d.rows : d.rows[i].Test_Group = g}

\* The sum of column c over the rows numbered in S.
ColSum(d, c, S) ==
    LET RECURSIVE Sum(_)
        Sum(T) == IF T = {} THEN 0
                  ELSE LET i == CHOOSE j \in T : TRUE
                       IN  d.rows[i][c] + Sum(T \ {i})
    IN  Sum(S)

\* Series.mean() of column c over the (non-empty) set S of rows.
Mean(d, c, S) == Frac(ColSum(d, c, S), Cardinality(S))

-----------------------------------------------------------------------------
(* simulate_data *)

\* One row's base draws (lines 20-30).  Rows are drawn independently and every
\* later statement works row by row, so the first row ranges over the whole
\* draw space while the later rows take every group and goal draw with the
\* remaining draws fixed; this keeps the set of tables enumerable.
RowDraws(i) ==
    [Test_Group : Groups,
     Platform_Goal_Achieved : GoalChoices,
     User_Comprehension_Score : IF i = 1 THEN NormalDraws ELSE {700},
     OptOut_Difficulty_Score : IF i = 1 THEN RandintRange ELSE {randint_low},
     Urgency_Messaging_Score : IF i = 1 THEN RandintRange ELSE {randint_high - 1}]

\* All sequences of n rows of base draws.
RECURSIVE DrawSeqs(_)
DrawSeqs(n) ==
    IF n = 0 THEN {<<>>}
    ELSE {Append(s, r) : s \in DrawSeqs(n - 1), r \in RowDraws(n)}

\* Lines 20-30 with the UserIDs numbered from 1001.
BaseTable_OneBased(draws) ==
    [columns |-> ObservationColumns,
     rows |-> [i \in 1 .. n_users |->
                  [UserID |-> UserIDBase + i,
                   Test_Group |-> draws[i].Test_Group,
                   Platform_Goal_Achieved |-> draws[i].Platform_Goal_Achieved,
                   User_Comprehension_Score |-> draws[i].User_Comprehension_Score,
                   OptOut_Difficulty_Score |-> draws[i].OptOut_Difficulty_Score,
                   Urgency_Messaging_Score |-> draws[i].Urgency_Messaging_Score]]]

\* pd.DataFrame({...}) of lines 20-30: UserID is range(1000, 1000 + n_users).
BaseTable(draws) ==
    [columns |-> ObservationColumns,
     rows |-> [i \in 1 .. n_users |->
                  [UserID |-> UserIDBase + (i - 1),
                   Test_Group |-> draws[i].Test_Group,
                   Platform_Goal_Achieved |-> draws[i].Platform_Goal_Achieved,
                   User_Comprehension_Score |-> draws[i].User_Comprehension_Score,
                   OptOut_Difficulty_Score |-> draws[i].OptOut_Difficulty_Score,
                   Urgency_Messaging_Score |-> draws[i].Urgency_Messaging_Score]]]

\* mask_b = df_ab['Test_Group'] == 'B' (line 34), on one row.
mask_b(row) == row.Test_Group = "B"

\* Line 35: group B's Platform_Goal_Achieved is drawn again; g gives the new
\* draw of each group B row.
BiasGoal(d, g) ==
    [d EXCEPT !.rows = [i \in DOMAIN d.rows |->
        IF mask_b(d.rows[i])
        THEN [d.rows[i] EXCEPT !.Platform_Goal_Achieved = g[i]]
        ELSE d.rows[i]]]

\* Line 36: df_ab.loc[mask_b, 'User_Comprehension_Score'] -= 1.0
BiasComprehension(d) ==
    [d EXCEPT !.rows = [i \in DOMAIN d.rows |->
        IF mask_b(d.rows[i])
        THEN [d.rows[i] EXCEPT !.User_Comprehension_Score = @ - comprehension_bias]
        ELSE d.rows[i]]]

\* Line 37 with the clamp left out: the bias is added to the raw draw.
BiasUrgencyValue_NoClip(u) == u + urgency_bias

\* Line 37: group B's Urgency_Messaging_Score becomes .clip(1, 8) + 2.0
BiasUrgencyValue(u) == Clip(u, urgency_clip_low, urgency_clip_high) + urgency_bias

BiasUrgency(d) ==
    [d EXCEPT !.rows = [i \in DOMAIN d.rows |->
        IF mask_b(d.rows[i])
        THEN [d.rows[i] EXCEPT !.Urgency_Messaging_Score = BiasUrgencyValue(@)]
        ELSE d.rows[i]]]

\* Line 40 with the clamp left out: the column is only rounded.
CleanComprehensionValue_NoClip(c) == Round1(c)

\* Line 40: the whole column is .clip(1, 10).round(1)
CleanComprehensionValue(c) == Round1(Clip(c, 100 * score_low, 100 * score_high))

CleanComprehension(d) ==
    [d EXCEPT !.rows = [i \in DOMAIN d.rows |->
        [d.rows[i] EXCEPT !.User_Comprehension_Score = CleanComprehensionValue(@)]]]

\* Line 41: the whole column is .clip(1, 10)
CleanUrgencyValue(u) == Clip(u, score_low, score_high)

CleanUrgency(d) ==
    [d EXCEPT !.rows = [i \in DOMAIN d.rows |->
        [d.rows[i] EXCEPT !.Urgency_Messaging_Score = CleanUrgencyValue(@)]]]

-----------------------------------------------------------------------------
(* calculate_autonomy_deficit *)

ScoredColumns == {"OptOut_Difficulty_Score", "Urgency_Messaging_Score"}

\* df['OptOut_Difficulty_Score'] or df['Urgency_Messaging_Score'] raises
\* KeyError when the column is absent (lines 59-60).
ScorerFails(d) == ~(ScoredColumns \subseteq d.columns)

\* Lines 58-61 with the two weights exchanged.
NADScore_SwappedWeights(row) ==
    row.OptOut_Difficulty_Score * W_Urgency + row.Urgency_Messaging_Score * W_OptOut

\* Lines 58-61 written as an update (+=) of an existing NAD_Score.
NADScore_Accumulating(row) ==
    (IF "NAD_Score" \in DOMAIN row THEN row.NAD_Score ELSE 0)
    + row.OptOut_Difficulty_Score * W_OptOut + row.Urgency_Messaging_Score * W_Urgency

\* Lines 58-61, on one row, in tenths.
NADScore(row) ==
    row.OptOut_Difficulty_Score * W_OptOut + row.Urgency_Messaging_Score * W_Urgency

\* Line 65, on one row: NAD_Score / max_possible_score.
NADNormalized(row) == Frac(row.NAD_Score, max_possible_score)

\* df['NAD_Score'] = ... (line 58): the column is added or overwritten.
WithNADScore(d) ==
    [columns |-> d.columns \cup {"NAD_Score"},
     rows |-> [i \in DOMAIN d.rows |-> SetCol(d.rows[i], "NAD_Score", NADScore(d.rows[i]))]]

\* df['NAD_Score_Normalized'] = ... (line 65)
WithNADNormalized(d) ==
    [columns |-> d.columns \cup {"NAD_Score_Normalized"},
     rows |-> [i \in DOMAIN d.rows |->
                  SetCol(d.rows[i], "NAD_Score_Normalized", NADNormalized(d.rows[i]))]]

\* The table a successful call returns (the argument, mutated in place).
calculate_autonomy_deficit(d) == WithNADNormalized(WithNADScore(d))

-----------------------------------------------------------------------------
(* generate_visualization *)

ReportedColumns == {"Test_Group", "Platform_Goal_Achieved", "User_Comprehension_Score"}

\* The groups with at least one row, which are the rows of group_metrics.
PresentGroups(d) == {d.rows[i].Test_Group : i \in DOMAIN d.rows}

\* df.groupby('Test_Group').agg(...).reset_index() (lines 76-79)
GroupMetrics(d) ==
    [g \in PresentGroups(d) |->
        [Goal_Rate |-> Mean(d, "Platform_Goal_Achieved", GroupIdx(d, g)),
         Comprehension_Avg |-> Mean(d, "User_Comprehension_Score", GroupIdx(d, g))]]

\* The exception lines 76-88 raise, or "none": groupby / agg raise KeyError for
\* an absent column; .iloc[0] of an empty selection raises IndexError.
ReporterError(d) ==
    IF ~(ReportedColumns \subseteq d.columns) THEN "KeyError"
    ELSE IF ~(Groups \subseteq DOMAIN GroupMetrics(d)) THEN "IndexError"
    ELSE "none"

\* Lines 83-84 without the conversion to percentage points.
NudgeEffect_Fraction(gm) == FracSub(gm["B"].Goal_Rate, gm["A"].Goal_Rate)

\* Lines 83-84
NudgeEffect(gm) == FracMul(FracSub(gm["B"].Goal_Rate, gm["A"].Goal_Rate), percent)

\* Lines 87-88
EthicalCost(gm) == FracSub(gm["A"].Comprehension_Avg, gm["B"].Comprehension_Avg)

\* Lines 91-95
TradeoffData(ne, ec) ==
    <<[Metric |-> "Platform Goal Increase (%)", Value |-> ne,
       Type |-> "Platform Gain (Desired)"],
      [Metric |-> "User Comprehension Drop (Points)", Value |-> ec,
       Type |-> "User Cost (Ethical Concern)"]>>

-----------------------------------------------------------------------------
(* The driver's summary (lines 130-131) *)

\* scored_data.groupby('Test_Group')['NAD_Score'].mean().round(2), in hundredths.
NADSummary(d) ==
    [g \in PresentGroups(d) |->
        RoundHalfEven(10 * ColSum(d, "NAD_Score", GroupIdx(d, g)),
                      Cardinality(GroupIdx(d, g)))]

-----------------------------------------------------------------------------
(* The run of the entry point (lines 122-136) *)

\* Before simulate_data has built it there is no table.
NoTable == [columns |-> {}, rows |-> <<>>]

Unset == <<>>

Init ==
    /\ pc = "sim_base"
    /\ df = NoTable
    /\ out = <<>>
    /\ err = "none"
    /\ summary = Unset
    /\ nudge_effect = Unset
    /\ ethical_cost = Unset
    /\ tradeoff_data = Unset

\* Lines 16-30: the progress line, then the table of base draws.
SimBase ==
    /\ pc = "sim_base"
    /\ out' = Append(out, "Simulating Audit Data...")
    /\ \E draws \in DrawSeqs(n_users) : df' = BaseTable(draws)
    /\ pc' = "sim_bias_goal"
    /\ UNCHANGED <<err, summary, nudge_effect, ethical_cost, tradeoff_data>>

\* Lines 34-35: size = mask_b.sum() fresh goal draws, one per group B row.
SimBiasGoal ==
    /\ pc = "sim_bias_goal"
    /\ \E g \in [GroupIdx(df, "B") -> GoalChoices] : df' = BiasGoal(df, g)
    /\ pc' = "sim_bias_comprehension"
    /\ UNCHANGED <<out, err, summary, nudge_effect, ethical_cost, tradeoff_data>>

\* Line 36
SimBiasComprehension ==
    /\ pc = "sim_bias_comprehension"
    /\ df' = BiasComprehension(df)
    /\ pc' = "sim_bias_urgency"
    /\ UNCHANGED <<out, err, summary, nudge_effect, ethical_cost, tradeoff_data>>

\* Line 37
SimBiasUrgency ==
    /\ pc = "sim_bias_urgency"
    /\ df' = BiasUrgency(df)
    /\ pc' = "sim_clean_comprehension"
    /\ UNCHANGED <<out, err, summary, nudge_effect, ethical_cost, tradeoff_data>>

\* Line 40
SimCleanComprehension ==
    /\ pc = "sim_clean_comprehension"
    /\ df' = CleanComprehension(df)
    /\ pc' = "sim_clean_urgency"
    /\ UNCHANGED <<out, err, summary, nudge_effect, ethical_cost, tradeoff_data>>

\* Lines 41-43: the last clamp, and the table is returned to the driver.
SimCleanUrgency ==
    /\ pc = "sim_clean_urgency"
    /\ df' = CleanUrgency(df)
    /\ pc' = "score"
    /\ UNCHANGED <<out, err, summary, nudge_effect, ethical_cost, tradeoff_data>>

\* calculate_autonomy_deficit creating NAD_Score (as 0) before it reads the
\* feature columns, so that a failing call leaves the new column behind.
ScorerCall_AssignsFirst(return_pc) ==
    /\ out' = Append(out, "Calculating Nudge Autonomy Deficit (NAD) Scores...")
    /\ IF ScorerFails(df)
       THEN /\ err' = "KeyError"
            /\ pc' = "aborted"
            /\ df' = [columns |-> df.columns \cup {"NAD_Score"},
                      rows |-> [i \in DOMAIN df.rows |->
                                   SetCol(df.rows[i], "NAD_Score", 0)]]
       ELSE /\ df' = calculate_autonomy_deficit(df)
            /\ pc' = return_pc
            /\ err' = err
    /\ UNCHANGED <<summary, nudge_effect, ethical_cost, tradeoff_data>>

\* One call of calculate_autonomy_deficit on df (lines 45-67): the progress
\* line is printed first; a missing column raises before anything is assigned.
ScorerCall(return_pc) ==
    /\ out' = Append(out, "Calculating Nudge Autonomy Deficit (NAD) Scores...")
    /\ IF ScorerFails(df)
       THEN /\ err' = "KeyError"
            /\ pc' = "aborted"
            /\ df' = df
       ELSE /\ df' = calculate_autonomy_deficit(df)
            /\ pc' = return_pc
            /\ err' = err
    /\ UNCHANGED <<summary, nudge_effect, ethical_cost, tradeoff_data>>

\* Line 127
Score ==
    /\ pc = "score"
    /\ ScorerCall("summary")

\* Lines 130-131
PrintSummary ==
    /\ pc = "summary"
    /\ summary' = NADSummary(df)
    /\ out' = out \o <<"--- Average Nudge Autonomy Deficit (NAD) Scores ---",
                       "NAD_Score by Test_Group">>
    /\ pc' = "viz_metrics"
    /\ UNCHANGED <<df, err, nudge_effect, ethical_cost, tradeoff_data>>

\* generate_visualization catching the failed lookup and returning without
\* a chart, so that the run goes on.
VizMetrics_Caught ==
    /\ pc = "viz_metrics"
    /\ out' = Append(out, "Generating Ethical Trade-Off Visualization...")
    /\ IF ReporterError(df) # "none"
       THEN /\ err' = err
            /\ pc' = "complete"
            /\ UNCHANGED <<nudge_effect, ethical_cost>>
       ELSE /\ nudge_effect' = NudgeEffect(GroupMetrics(df))
            /\ ethical_cost' = EthicalCost(GroupMetrics(df))
            /\ pc' = "viz_tradeoff"
            /\ err' = err
    /\ UNCHANGED <<df, summary, tradeoff_data>>

\* Line 134, lines 73-88 of generate_visualization: the progress line, the
\* group metrics and the two deltas; a lookup that fails raises here.
VizMetrics ==
    /\ pc = "viz_metrics"
    /\ out' = Append(out, "Generating Ethical Trade-Off Visualization...")
    /\ IF ReporterError(df) # "none"
       THEN /\ err' = ReporterError(df)
            /\ pc' = "aborted"
            /\ UNCHANGED <<nudge_effect, ethical_cost>>
       ELSE /\ nudge_effect' = NudgeEffect(GroupMetrics(df))
            /\ ethical_cost' = EthicalCost(GroupMetrics(df))
            /\ pc' = "viz_tradeoff"
            /\ err' = err
    /\ UNCHANGED <<df, summary, tradeoff_data>>

\* Lines 91-95
VizTradeoff ==
    /\ pc = "viz_tradeoff"
    /\ tradeoff_data' = TradeoffData(nudge_effect, ethical_cost)
    /\ pc' = "viz_plot"
    /\ UNCHANGED <<df, out, err, summary, nudge_effect, ethical_cost>>

\* The plotting surface's failure noted but the run carried on.
VizPlot_FailureIgnored ==
    /\ pc = "viz_plot"
    /\ \/ /\ out' = Append(out, "chart displayed")
          /\ pc' = "complete"
          /\ err' = err
       \/ /\ err' = "RenderError"
          /\ pc' = "complete"
          /\ out' = out
    /\ UNCHANGED <<df, summary, nudge_effect, ethical_cost, tradeoff_data>>

\* Lines 98-120: the plotting surface draws and displays the chart, or is
\* unavailable and raises.
VizPlot ==
    /\ pc = "viz_plot"
    /\ \/ /\ out' = Append(out, "chart displayed")
          /\ pc' = "complete"
          /\ err' = err
       \/ /\ err' = "RenderError"
          /\ pc' = "aborted"
          /\ out' = out
    /\ UNCHANGED <<df, summary, nudge_effect, ethical_cost, tradeoff_data>>

\* Line 136, then the process exits with status 0.
Complete ==
    /\ pc = "complete"
    /\ out' = Append(out, "Audit Complete.")
    /\ pc' = "exit0"
    /\ UNCHANGED <<df, err, summary, nudge_effect, ethical_cost, tradeoff_data>>

Next ==
    \/ SimBase
    \/ SimBiasGoal
    \/ SimBiasComprehension
    \/ SimBiasUrgency
    \/ SimCleanComprehension
    \/ SimCleanUrgency
    \/ Score
    \/ PrintSummary
    \/ VizMetrics
    \/ VizTradeoff
    \/ VizPlot
    \/ Complete

Spec == Init /\ [][Next]_vars

-----------------------------------------------------------------------------
(* The scorer on a given table, called twice in a row *)

\* The table with the given rows, its columns cut down to cols.
TableOf(rows, cols) ==
    [columns |-> cols,
     rows |-> [i \in DOMAIN rows |-> [c \in cols |-> rows[i][c]]]]

\* Feature scores handed to the scorer: on and off the simulator's range.
OptOutInputs == {2, 9, 10}
UrgencyInputs == {1, 3, 10}

ScorerRows(i) ==
    [UserID : {UserIDBase + (i - 1)},
     Test_Group : Groups,
     Platform_Goal_Achieved : {0},
     User_Comprehension_Score : {700},
     OptOut_Difficulty_Score : OptOutInputs,
     Urgency_Messaging_Score : UrgencyInputs]

\* The column sets of the tables handed to the scorer: complete, and lacking
\* one or both of the feature columns.
ScorerColumnSets ==
    {ObservationColumns,
     ObservationColumns \ {"OptOut_Difficulty_Score"},
     ObservationColumns \ {"Urgency_Messaging_Score"},
     ObservationColumns \ ScoredColumns}

\* All sequences of at most n scorer rows.
RECURSIVE ScorerRowSeqs(_)
ScorerRowSeqs(n) ==
    IF n = 0 THEN {<<>>}
    ELSE ScorerRowSeqs(n - 1) \cup
         {Append(s, r) : s \in {t \in ScorerRowSeqs(n - 1) : Len(t) = n - 1},
                         r \in ScorerRows(n)}

ScorerTables ==
    {TableOf(rows, cols) : rows \in ScorerRowSeqs(MaxScorerRows),
                           cols \in ScorerColumnSets}

InitScorer ==
    /\ pc = "call_1"
    /\ df \in ScorerTables
    /\ out = <<>>
    /\ err = "none"
    /\ summary = Unset
    /\ nudge_effect = Unset
    /\ ethical_cost = Unset
    /\ tradeoff_data = Unset

ScoreFirst ==
    /\ pc = "call_1"
    /\ ScorerCall("call_2")

ScoreSecond ==
    /\ pc = "call_2"
    /\ ScorerCall("returned")

NextScorer ==
    \/ ScoreFirst
    \/ ScoreSecond

SpecScorer == InitScorer /\ [][NextScorer]_vars

-----------------------------------------------------------------------------
(* The reporter on a given scored table: the run entered at line 134 *)

ReporterRows(i) ==
    [UserID : {UserIDBase + (i - 1)},
     Test_Group : Groups,
     Platform_Goal_Achieved : GoalChoices,
     User_Comprehension_Score : {540, 700},
     OptOut_Difficulty_Score : {5},
     Urgency_Messaging_Score : {5}]

\* A fixed table of 24 rows: 1 of group A's 4 rows and 7 of group B's 20 rows
\* achieve the platform goal, so the goal rates are 0.25 and 0.35.
GoalRateExampleRows ==
    [i \in 1 .. 24 |->
        [UserID |-> UserIDBase + (i - 1),
         Test_Group |-> IF i <= 4 THEN "A" ELSE "B",
         Platform_Goal_Achieved |-> IF i = 1 \/ (5 <= i /\ i <= 11) THEN 1 ELSE 0,
         User_Comprehension_Score |-> IF i <= 4 THEN 700 ELSE 600,
         OptOut_Difficulty_Score |-> 5,
         Urgency_Messaging_Score |-> 5]]

\* All sequences of at most n reporter rows.
RECURSIVE ReporterRowSeqs(_)
ReporterRowSeqs(n) ==
    IF n = 0 THEN {<<>>}
    ELSE ReporterRowSeqs(n - 1) \cup
         {Append(s, r) : s \in {t \in ReporterRowSeqs(n - 1) : Len(t) = n - 1},
                         r \in ReporterRows(n)}

ReporterTables ==
    {calculate_autonomy_deficit(TableOf(rows, ObservationColumns)) :
        rows \in ReporterRowSeqs(MaxReporterRows) \cup {GoalRateExampleRows}}

InitReporter ==
    /\ pc = "viz_metrics"
    /\ df \in ReporterTables
    /\ out = <<>>
    /\ err = "none"
    /\ summary = Unset
    /\ nudge_effect = Unset
    /\ ethical_cost = Unset
    /\ tradeoff_data = Unset

NextReporter ==
    \/ VizMetrics
    \/ VizTradeoff
    \/ VizPlot
    \/ Complete

SpecReporter == InitReporter /\ [][NextReporter]_vars

-----------------------------------------------------------------------------
(* Properties *)

Rows == DOMAIN df.rows

\* simulate_data has returned: the driver holds the finished table.
AfterSimulation ==
    pc \in {"score", "summary", "viz_metrics", "viz_tradeoff", "viz_plot",
            "complete", "exit0", "aborted"}

\* Line 37 has run and line 41, the final clamp of the urgency column, has not.
BeforeFinalUrgencyClamp == pc \in {"sim_clean_comprehension", "sim_clean_urgency"}

\* calculate_autonomy_deficit has returned normally at least once.
Scored == {"NAD_Score", "NAD_Score_Normalized"} \subseteq df.columns

\* C1: in every row of the table simulate_data returns, whatever was drawn and
\* whichever the group, User_Comprehension_Score lies in [1, 10] (100 .. 1000
\* hundredths) and Urgency_Messaging_Score lies in [1, 10].
C1_ScoresInRange ==
    AfterSimulation
    => \A i \in Rows :
          /\ 100 <= df.rows[i].User_Comprehension_Score
          /\ df.rows[i].User_Comprehension_Score <= 1000
          /\ 1 <= df.rows[i].Urgency_Messaging_Score
          /\ df.rows[i].Urgency_Messaging_Score <= 10

\* A returned table whose first row was clamped up to 1.0 and whose second row
\* is a group B row at the urgency ceiling.
C1_Witness ==
    /\ pc = "score"
    /\ df.rows[1].User_Comprehension_Score = 100
    /\ df.rows[1].Test_Group = "A"
    /\ df.rows[2].Test_Group = "B"
    /\ df.rows[2].Urgency_Messaging_Score = 10

\* C2: after calculate_autonomy_deficit every row has NAD_Score =
\* 0.4 * OptOut + 0.5 * Urgency (in tenths: 4 * OptOut + 5 * Urgency) and
\* NAD_Score_Normalized = NAD_Score / 9.0 (in tenths: over 90); (2, 3) gives
\* 2.3 and 0.2556 to four decimals, (10, 10) gives 9.0 and exactly 1.
C2_NADFormula ==
    (pc \in {"call_2", "returned"})
    => \A i \in Rows :
          LET o == df.rows[i].OptOut_Difficulty_Score
              u == df.rows[i].Urgency_Messaging_Score
              nad == df.rows[i].NAD_Score
              norm == df.rows[i].NAD_Score_Normalized
          IN  /\ nad = 4 * o + 5 * u
              /\ norm[2] > 0
              /\ norm[1] * 90 = nad * norm[2]
              /\ (o = 2 /\ u = 3) =>
                    (nad = 23 /\ RoundHalfEven(norm[1] * 10000, norm[2]) = 2556)
              /\ (o = 10 /\ u = 10) => (nad = 90 /\ norm = <<1, 1>>)

\* A scored table holding both rows of the example.
C2_Witness ==
    /\ pc = "call_2"
    /\ Len(df.rows) = 2
    /\ df.rows[1].OptOut_Difficulty_Score = 2
    /\ df.rows[1].Urgency_Messaging_Score = 3
    /\ df.rows[1].NAD_Score = 23
    /\ df.rows[2].OptOut_Difficulty_Score = 10
    /\ df.rows[2].Urgency_Messaging_Score = 10
    /\ df.rows[2].NAD_Score_Normalized = <<1, 1>>

\* Counts and sums of one group, taken from the table row by row.
CountOf(g) == Cardinality({i \in Rows : df.rows[i].Test_Group = g})
GoalsOf(g) ==
    Cardinality({i \in Rows : df.rows[i].Test_Group = g
                              /\ df.rows[i].Platform_Goal_Achieved = 1})
RECURSIVE ComprehensionUpTo(_, _)
ComprehensionUpTo(g, n) ==
    IF n = 0 THEN 0
    ELSE ComprehensionUpTo(g, n - 1) +
         (IF df.rows[n].Test_Group = g THEN df.rows[n].User_Comprehension_Score ELSE 0)
ComprehensionOf(g) == ComprehensionUpTo(g, Len(df.rows))

\* C3: on a table with rows of both groups, nudge_effect is (mean goal of B -
\* mean goal of A) * 100 and ethical_cost is mean comprehension of A - mean
\* comprehension of B; so nudge_effect > 0 whenever B's goal rate is the
\* greater, ethical_cost > 0 whenever A's comprehension mean is the greater,
\* and goal rates 0.25 and 0.35 give nudge_effect = 10.
C3_Deltas ==
    (nudge_effect # Unset)
    => LET nA == CountOf("A")
           nB == CountOf("B")
           gA == GoalsOf("A")
           gB == GoalsOf("B")
           cA == ComprehensionOf("A")
           cB == ComprehensionOf("B")
       IN  /\ nA > 0 /\ nB > 0
           /\ ethical_cost # Unset
           /\ nudge_effect[2] > 0
           /\ ethical_cost[2] > 0
           /\ nudge_effect[1] * (nA * nB) = nudge_effect[2] * 100 * (gB * nA - gA * nB)
           /\ ethical_cost[1] * (nA * nB) = ethical_cost[2] * (cA * nB - cB * nA)
           /\ (gB * nA > gA * nB) => nudge_effect[1] > 0
           /\ (cA * nB > cB * nA) => ethical_cost[1] > 0
           /\ (4 * gA = nA /\ 20 * gB = 7 * nB) => nudge_effect = <<10, 1>>

\* The reporter has computed both deltas on the table whose goal rates are
\* 0.25 and 0.35; A's comprehension mean exceeds B's there.
C3_Witness ==
    /\ pc = "viz_tradeoff"
    /\ 4 * GoalsOf("A") = CountOf("A")
    /\ 20 * GoalsOf("B") = 7 * CountOf("B")
    /\ CountOf("B") > 0
    /\ nudge_effect = <<10, 1>>
    /\ ethical_cost[1] > 0

\* C4: a second call of calculate_autonomy_deficit leaves the table exactly as
\* the first call left it, and no call changes the number of rows or the value
\* of any column other than NAD_Score and NAD_Score_Normalized.
C4_Idempotent ==
    [][ /\ (pc = "call_2" /\ pc' = "returned") => df' = df
        /\ (pc \in {"call_1", "call_2"}) =>
              /\ Len(df'.rows) = Len(df.rows)
              /\ df.columns \subseteq df'.columns
              /\ \A i \in Rows :
                    \A c \in df.columns \ {"NAD_Score", "NAD_Score_Normalized"} :
                        df'.rows[i][c] = df.rows[i][c] ]_vars

\* Both calls have returned on a table of two rows.
C4_Witness ==
    /\ pc = "returned"
    /\ Len(df.rows) = 2
    /\ Scored
    /\ df.rows[2].NAD_Score = 90

\* C5: when group A or group B has no row, generate_visualization raises the
\* lookup error at the indexing of the group metrics; no trade-off table has
\* been built, nothing has reached the plotting surface, and the error is not
\* caught: the run is over.
C5_MissingGroup ==
    /\ [][ (pc = "viz_metrics" /\ (CountOf("A") = 0 \/ CountOf("B") = 0))
           => (err' = "IndexError" /\ pc' = "aborted" /\ tradeoff_data' = Unset) ]_vars
    /\ [](err = "IndexError"
          => /\ pc = "aborted"
             /\ tradeoff_data = Unset
             /\ nudge_effect = Unset
             /\ \A k \in DOMAIN out : out[k] \notin {"chart displayed", "Audit Complete."})
    /\ [][ err = "IndexError" => UNCHANGED vars ]_vars

\* The reporter failed on a table that has group A rows and no group B row.
C5_Witness ==
    /\ err = "IndexError"
    /\ CountOf("A") > 0
    /\ CountOf("B") = 0
    /\ out = <<"Generating Ethical Trade-Off Visualization...">>

\* C6: on a table lacking OptOut_Difficulty_Score or Urgency_Messaging_Score,
\* calculate_autonomy_deficit raises the missing-field error and leaves the
\* table as it was: neither NAD_Score nor NAD_Score_Normalized is added.
C6_MissingColumn ==
    /\ [][ (pc \in {"call_1", "call_2"}
            /\ ("OptOut_Difficulty_Score" \notin df.columns
                \/ "Urgency_Messaging_Score" \notin df.columns))
           => (err' = "KeyError" /\ pc' = "aborted" /\ df' = df) ]_vars
    /\ [](err = "KeyError"
          => /\ "NAD_Score" \notin df.columns
             /\ "NAD_Score_Normalized" \notin df.columns
             /\ \A i \in Rows : DOMAIN df.rows[i] = df.columns)

\* The scorer failed on a table of two rows that lacks only the urgency column.
C6_Witness ==
    /\ err = "KeyError"
    /\ pc = "aborted"
    /\ Len(df.rows) = 2
    /\ df.columns = ObservationColumns \ {"Urgency_Messaging_Score"}

\* What a complete run prints and displays, in order.
ExpectedOutput ==
    <<"Simulating Audit Data...",
      "Calculating Nudge Autonomy Deficit (NAD) Scores...",
      "--- Average Nudge Autonomy Deficit (NAD) Scores ---",
      "NAD_Score by Test_Group",
      "Generating Ethical Trade-Off Visualization...",
      "chart displayed",
      "Audit Complete.">>

\* How much of ExpectedOutput has been produced when the run stands at a
\* position (a step's own output is produced when the step has finished).
OutputAt(p) ==
    CASE p = "sim_base" -> 0
      [] p \in {"sim_bias_goal", "sim_bias_comprehension", "sim_bias_urgency",
                "sim_clean_comprehension", "sim_clean_urgency", "score"} -> 1
      [] p = "summary" -> 2
      [] p = "viz_metrics" -> 4
      [] p \in {"viz_tradeoff", "viz_plot"} -> 5
      [] p = "complete" -> 6
      [] p = "exit0" -> 7

\* C7: the events of a run occur in the order Simulating, Calculating, NAD
\* summary, Generating, chart display, Audit Complete; each step starts only
\* when the previous one has finished; once a step has failed nothing further
\* happens, and Audit Complete is never printed after a failure.
C7_Order ==
    /\ [](/\ \E k \in 0 .. Len(ExpectedOutput) : out = SubSeq(ExpectedOutput, 1, k)
          /\ pc # "aborted" => (err = "none" /\ Len(out) = OutputAt(pc))
          /\ pc = "aborted" => (err # "none" /\ Len(out) < Len(ExpectedOutput))
          /\ summary # Unset => Scored
          /\ nudge_effect # Unset => summary # Unset)
    /\ [][ Len(out') >= Len(out) /\ (err # "none" => UNCHANGED vars) ]_vars

\* A run that failed in the reporter, after the summary and the Generating
\* line, because the simulated table holds no group A row.
C7_Witness ==
    /\ pc = "aborted"
    /\ err = "IndexError"
    /\ out = SubSeq(ExpectedOutput, 1, 5)
    /\ CountOf("A") = 0

\* C8: the simulated table has exactly n_users rows; every row is in group A
\* or in group B; the UserIDs are the contiguous integers from 1000, hence
\* pairwise distinct; and no statement after the table's construction changes
\* a UserID or a Test_Group.
C8_Shape ==
    /\ [](pc # "sim_base"
          => /\ Len(df.rows) = n_users
             /\ \A i \in Rows :
                   /\ df.rows[i].Test_Group \in {"A", "B"}
                   /\ df.rows[i].UserID = 1000 + (i - 1)
             /\ \A i, j \in Rows : i # j => df.rows[i].UserID # df.rows[j].UserID
             /\ {df.rows[i].UserID : i \in Rows} = 1000 .. (1000 + n_users - 1))
    /\ [][ pc # "sim_base"
           => /\ Len(df'.rows) = Len(df.rows)
              /\ \A i \in Rows :
                    /\ df'.rows[i].UserID = df.rows[i].UserID
                    /\ df'.rows[i].Test_Group = df.rows[i].Test_Group ]_vars

\* The returned table, with one row in each group.
C8_Witness ==
    /\ pc = "score"
    /\ Len(df.rows) = n_users
    /\ df.rows[1].Test_Group = "B"
    /\ df.rows[2].Test_Group = "A"
    /\ df.rows[2].UserID = 1001

\* C9 as stated: before the final clamp of the urgency column a group B row is
\* its draw clamped to [1, 8] plus 2, hence at most 10, while a group A row is
\* its unclamped draw, a draw that may exceed 10.
C9_AsStated ==
    BeforeFinalUrgencyClamp
    => \A i \in Rows :
          IF df.rows[i].Test_Group = "B"
          THEN df.rows[i].Urgency_Messaging_Score <= 10
          ELSE \E u \in RandintRange : u > 10

\* C9, amended: line 37 turns a group B row's draw into the draw clamped to
\* [1, 8] plus 2 and leaves a group A row's draw as it is; before the final
\* clamp a group B row therefore lies in [3, 10] and a group A row in [1, 9],
\* never above 10; and the final clamp changes no row.
C9_BeforeFinalClamp ==
    /\ [][ pc = "sim_bias_urgency"
           => \A i \in Rows :
                 LET u == df.rows[i].Urgency_Messaging_Score
                     v == df'.rows[i].Urgency_Messaging_Score
                 IN  IF df.rows[i].Test_Group = "B"
                     THEN v = (IF u > 8 THEN 8 ELSE IF u < 1 THEN 1 ELSE u) + 2
                     ELSE v = u ]_vars
    /\ [](BeforeFinalUrgencyClamp
          => \A i \in Rows :
                LET u == df.rows[i].Urgency_Messaging_Score
                IN  IF df.rows[i].Test_Group = "B"
                    THEN 3 <= u /\ u <= 10
                    ELSE 1 <= u /\ u <= 9)
    /\ [][ pc = "sim_clean_urgency" => df'.rows = df.rows ]_vars

\* Before the final clamp: a group B row at 10 beside a group A row at 9.
C9_Witness ==
    /\ pc = "sim_clean_urgency"
    /\ df.rows[1].Test_Group = "B"
    /\ df.rows[1].Urgency_Messaging_Score = 10
    /\ df.rows[2].Test_Group = "A"
    /\ df.rows[2].Urgency_Messaging_Score = 9

\* C10: after simulate_data and calculate_autonomy_deficit every row has
\* 0.9 <= NAD_Score <= 8.6 (at most 8.1 in group A), in tenths 9 .. 86, so
\* NAD_Score stays below the divisor 9.0 and NAD_Score_Normalized below 1.
C10_NADRange ==
    (AfterSimulation /\ Scored)
    => \A i \in Rows :
          /\ 9 <= df.rows[i].NAD_Score
          /\ df.rows[i].NAD_Score <= 86
          /\ df.rows[i].Test_Group = "A" => df.rows[i].NAD_Score <= 81
          /\ df.rows[i].NAD_Score < 90
          /\ df.rows[i].NAD_Score_Normalized[1] < df.rows[i].NAD_Score_Normalized[2]

\* A scored simulated table whose first row, in group B, reaches 8.6.
C10_Witness ==
    /\ pc = "summary"
    /\ df.rows[1].Test_Group = "B"
    /\ df.rows[1].NAD_Score = 86
    /\ df.rows[2].Test_Group = "A"
    /\ df.rows[2].NAD_Score = 49

=============================================================================
